---- MODULE Spec2Model ----
(***************************************************************************)
(* A model of server.py (systemd-ui): the validation layer, the timer      *)
(* index and schedule resolver, the run-history builder (discovery and     *)
(* aggregation), the log fetcher, the unit catalog and the HTTP dispatch   *)
(* of Handler.do_GET.  Every call of run() is one step whose outcome (the  *)
(* text printed, a nonzero exit, a timeout, undecodable bytes) is chosen   *)
(* by the environment.                                                     *)
(*                                                                         *)
(* Python text is modelled by TLA+ strings (Len, SubSeq, \o act on them as *)
(* on sequences of characters).  Python values whose type the code tests   *)
(* are tagged records: PyNone, PyStr(s), PyInt(n), PyList.                 *)
(***************************************************************************)
EXTENDS Integers, Sequences, FiniteSets, TLC

VARIABLES
    pc,             \* position of the request in do_GET and its callees
    route,          \* which branch of do_GET serves the request
    unit,           \* the unit name taken from the path (unquoted)
    invocation_id,  \* the invocation id taken from the path (/api/logs)
    limit_qs,       \* the raw limit query value (a string)
    limit,          \* int(limit_qs), once parsed
    targets_qs,     \* the raw targets query value (/api/units)
    cmds,           \* the external commands run so far, in order
    timers,         \* list_timers() result inside schedule_for_unit
    log_unit,       \* list_runs / logs_for_invocation: log_unit
    journal,        \* the unit's log stream, oldest record first
    scan,           \* list_runs: lines of the discovery scan
    inv_ids,        \* list_runs: inv_ids
    raw,            \* list_runs: lines of the current invocation's query
    pos,            \* list_runs: lines of raw already folded
    start_ms,       \* list_runs: start_ms
    end_ms,         \* list_runs: end_ms
    status,         \* list_runs: status
    cpu_usage,      \* list_runs: cpu_usage
    runs,           \* list_runs: runs
    targets,        \* units_for_targets: the targets argument
    tpos,           \* units_for_targets: targets already handled
    deps,           \* units_for_targets: lines of the last dependency query
    wanted,         \* units_for_targets: wanted
    unit_files,     \* list_units: lines of systemctl list-unit-files
    items,          \* list_units: the sorted catalog
    props,          \* unit_detail: props
    resp            \* the response sent by send_json

vars == <<pc, route, unit, invocation_id, limit_qs, limit, targets_qs, cmds,
          timers, log_unit, journal, scan, inv_ids, raw, pos, start_ms,
          end_ms, status, cpu_usage, runs, targets, tpos, deps, wanted,
          unit_files, items, props, resp>>

---------------------------------------------------------------------------
(* Bounds of the model. *)

MaxTimers == 2
MaxScan == 3
MaxRaw == 3
MaxListing == 2
MaxDeps == 1
MaxUnits == 1

---------------------------------------------------------------------------
(* Python values. *)

PyNone == [t |-> "none"]
PyStr(s) == [t |-> "str", s |-> s]
PyInt(n) == [t |-> "int", n |-> n]
PyList == [t |-> "list"]

IsStr(v) == v.t = "str"
IsInt(v) == v.t = "int"

\* Python truthiness of a value: None, "" and 0 are false.
Truthy(v) ==
    CASE v.t = "none" -> FALSE
      [] v.t = "str" -> v.s # ""
      [] v.t = "int" -> v.n # 0
      [] OTHER -> TRUE     \* PyList stands for a non-empty list

---------------------------------------------------------------------------
(* Text helpers. *)

Chr(s, i) == SubSeq(s, i, i)

RECURSIVE Rep(_, _)
Rep(c, n) ==
    IF n = 0 THEN ""
    ELSE IF n % 2 = 0 THEN LET h == Rep(c, n \div 2) IN h \o h
    ELSE c \o Rep(c, n - 1)

EndsWith(s, suf) ==
    /\ Len(s) >= Len(suf)
    /\ SubSeq(s, Len(s) - Len(suf) + 1, Len(s)) = suf

StartsWith(s, pre) ==
    /\ Len(s) >= Len(pre)
    /\ SubSeq(s, 1, Len(pre)) = pre

Contains(s, sub) ==
    \E i \in 1..(Len(s) - Len(sub) + 1) : SubSeq(s, i, i + Len(sub) - 1) = sub

Upper == <<"A","B","C","D","E","F","G","H","I","J","K","L","M",
           "N","O","P","Q","R","S","T","U","V","W","X","Y","Z">>
Lowers == <<"a","b","c","d","e","f","g","h","i","j","k","l","m",
            "n","o","p","q","r","s","t","u","v","w","x","y","z">>
Digits == <<"0","1","2","3","4","5","6","7","8","9">>

Range(f) == {f[i] : i \in DOMAIN f}

LowerChar(c) ==
    IF \E i \in 1..26 : Upper[i] = c
    THEN Lowers[CHOOSE i \in 1..26 : Upper[i] = c]
    ELSE c

\* str.lower()
RECURSIVE Lower(_)
Lower(s) == IF s = "" THEN "" ELSE LowerChar(Chr(s, 1)) \o Lower(Tail(s))

IsSpace(c) == c \in {" ", "\t"}

\* str.lstrip() / str.strip() with no argument: whitespace.
RECURSIVE LStrip(_)
LStrip(s) ==
    IF s # "" /\ IsSpace(Chr(s, 1)) THEN LStrip(Tail(s)) ELSE s

RECURSIVE RStrip(_)
RStrip(s) ==
    IF s # "" /\ IsSpace(Chr(s, Len(s)))
    THEN RStrip(SubSeq(s, 1, Len(s) - 1))
    ELSE s

Strip(s) == RStrip(LStrip(s))

\* Length of the first run of non-whitespace characters of s.
TokenLen(s) ==
    LET ws == {i \in 1..Len(s) : IsSpace(Chr(s, i))}
    IN  IF ws = {} THEN Len(s)
        ELSE (CHOOSE i \in ws : \A j \in ws : i <= j) - 1

\* str.split(None, maxsplit): at most maxsplit splits on runs of whitespace;
\* the last part is the rest of the text without its leading whitespace.
\* (Called on stripped text only, as in the source.)
RECURSIVE Split(_, _)
Split(s, maxsplit) ==
    LET t == LStrip(s)
        n == TokenLen(t)
    IN  IF t = "" THEN <<>>
        ELSE IF maxsplit = 0 THEN <<t>>
        ELSE <<SubSeq(t, 1, n)>> \o Split(SubSeq(t, n + 1, Len(t)), maxsplit - 1)

\* str.split(","): every comma separates, empty parts are kept.
RECURSIVE SplitComma(_)
SplitComma(s) ==
    IF ~Contains(s, ",") THEN <<s>>
    ELSE LET i == CHOOSE j \in 1..Len(s) :
                    /\ Chr(s, j) = ","
                    /\ \A h \in 1..(j - 1) : Chr(s, h) # ","
         IN  <<SubSeq(s, 1, i - 1)>> \o SplitComma(SubSeq(s, i + 1, Len(s)))

\* int(text) for a decimal literal: optional sign and digits.  Anything else
\* raises ValueError (IsIntText is FALSE).
AllDigits(s) == s # "" /\ \A i \in 1..Len(s) : Chr(s, i) \in Range(Digits)

IsIntText(s) ==
    \/ AllDigits(s)
    \/ Len(s) >= 2 /\ Chr(s, 1) \in {"-", "+"} /\ AllDigits(Tail(s))

DigitVal(c) == (CHOOSE i \in 1..10 : Digits[i] = c) - 1

RECURSIVE NatText(_)
NatText(s) ==
    IF s = "" THEN 0
    ELSE 10 * NatText(SubSeq(s, 1, Len(s) - 1)) + DigitVal(Chr(s, Len(s)))

IntText(s) ==
    IF Chr(s, 1) = "-" THEN 0 - NatText(Tail(s))
    ELSE IF Chr(s, 1) = "+" THEN NatText(Tail(s))
    ELSE NatText(s)

\* Characters in code-point order, for the comparison of texts.
Ascii == "\t *+,-./0123456789:=@ABCDEFGHIJKLMNOPQRSTUVWXYZ\\_abcdefghijklmnopqrstuvwxyz"

CharOrd(c) == CHOOSE i \in 1..Len(Ascii) : Chr(Ascii, i) = c

\* a < b for Python str (lexicographic by code point).
StrLess(a, b) ==
    LET n == IF Len(a) < Len(b) THEN Len(a) ELSE Len(b)
        d == {i \in 1..n : Chr(a, i) # Chr(b, i)}
    IN  IF d = {} THEN Len(a) < Len(b)
        ELSE LET k == CHOOSE i \in d : \A j \in d : i <= j
             IN  CharOrd(Chr(a, k)) < CharOrd(Chr(b, k))

\* Two decimal digits / six decimal digits of n, zero padded.
Pad2(n) == Digits[(n \div 10) + 1] \o Digits[(n % 10) + 1]
Pad6(n) == Pad2(n \div 10000) \o Pad2((n \div 100) % 100) \o Pad2(n % 100)

---------------------------------------------------------------------------
(* Program constants. *)

MaxUnitLen == 200
InvocationLen == 32
MinLimit == 1
RunsMaxLimit == 50
LogsMaxLimit == 5000
ScanLines == 20000
UsecPerMs == 1000

---------------------------------------------------------------------------
(* Validation layer. *)

UnitChars ==
    Range(Upper) \cup Range(Lowers) \cup Range(Digits) \cup {":", ".", "_", "@", "-"}

HexChars == Range(Digits) \cup {"a", "b", "c", "d", "e", "f"}

\* UNIT_RE.fullmatch(s): ^[A-Za-z0-9:._@\-]+$
UNIT_RE(s) == s # "" /\ \A i \in 1..Len(s) : Chr(s, i) \in UnitChars

\* INVOCATION_RE.fullmatch(s): ^[0-9a-f]{32}$
INVOCATION_RE(s) ==
    Len(s) = InvocationLen /\ \A i \in 1..Len(s) : Chr(s, i) \in HexChars

\* not unit or len(unit) > 200 or not UNIT_RE.fullmatch(unit)
\* The unit check without its length bound.
InvalidUnitNoLength(u) == u = "" \/ ~UNIT_RE(u)

InvalidUnit(u) == u = "" \/ Len(u) > MaxUnitLen \/ ~UNIT_RE(u)

\* not invocation_id or not INVOCATION_RE.fullmatch(invocation_id)
InvalidInvocation(i) == i = "" \/ ~INVOCATION_RE(i)

\* limit < 1 or limit > hi
InvalidLimit(n, hi) == n < MinLimit \/ n > hi

---------------------------------------------------------------------------
(* usec_to_ms, ms_to_iso. *)

\* int(v) succeeds: v is an int or a decimal literal held in a str.
IntOk(v) == IsInt(v) \/ (IsStr(v) /\ IsIntText(v.s))
IntOf(v) == IF IsInt(v) THEN v.n ELSE IntText(v.s)

usec_to_ms(v) ==
    IF ~IntOk(v) THEN PyNone
    ELSE IF IntOf(v) <= 0 THEN PyNone
    ELSE PyInt(IntOf(v) \div UsecPerMs)

\* datetime.fromtimestamp(ms / 1000, tz=utc).isoformat(), written out for
\* instants of 1970-01-01 (ms < 86400000), which is all the model feeds it.
ms_to_iso(ms) ==
    IF ms = PyNone THEN PyNone
    ELSE LET sec == ms.n \div 1000
             micro == (ms.n % 1000) * 1000
         IN  PyStr("1970-01-01T" \o Pad2(sec \div 3600) \o ":"
                   \o Pad2((sec \div 60) % 60) \o ":" \o Pad2(sec % 60)
                   \o (IF micro = 0 THEN "" ELSE "." \o Pad6(micro))
                   \o "+00:00")

---------------------------------------------------------------------------
(* list.sort(key=...): stable, ascending.  Less(a, b) is key(a) < key(b). *)

SortBy(seq, Less(_, _)) ==
    LET n == Len(seq)
        rank(i) == Cardinality({j \in 1..n :
                        \/ Less(seq[j], seq[i])
                        \/ (~Less(seq[i], seq[j]) /\ j < i)}) + 1
    IN  [p \in 1..n |-> seq[CHOOSE i \in 1..n : rank(i) = p]]

\* [x for x in seq if Keep(x)]
Filter(seq, Keep(_)) ==
    LET idx == {i \in 1..Len(seq) : Keep(seq[i])}
    IN  [p \in 1..Cardinality(idx) |->
            seq[CHOOSE i \in idx : Cardinality({j \in idx : j < i}) = p - 1]]

---------------------------------------------------------------------------
(* TimerIndex: list_timers, after run() returned the JSON array `objs`.    *)
(* An object of the array is [unit, activates, next, last], a missing key  *)
(* being PyNone (dict.get).                                                *)

TimerEntry(it) ==
    [timer |-> it.unit,
     activates |-> it.activates,
     nextMs |-> usec_to_ms(it.next),
     nextIso |-> ms_to_iso(usec_to_ms(it.next)),
     lastMs |-> usec_to_ms(it.last),
     lastIso |-> ms_to_iso(usec_to_ms(it.last))]

\* x.get("timer") or ""
TimerKey(x) == IF Truthy(x.timer) THEN x.timer.s ELSE ""

list_timers(objs) ==
    SortBy([i \in 1..Len(objs) |-> TimerEntry(objs[i])],
           LAMBDA a, b : StrLess(TimerKey(a), TimerKey(b)))

---------------------------------------------------------------------------
(* ScheduleResolver: schedule_for_unit after validation, given the result  *)
(* of list_timers().                                                       *)

\* key=lambda x: (x.get("nextMs") is None, x.get("nextMs") or 0), compared
\* as Python compares tuples (False < True).
\* The ordering by (nextMs or 0) alone, without the "nextMs is None" flag.
CandidateLessByValue(a, b) ==
    LET av == IF Truthy(a.nextMs) THEN a.nextMs.n ELSE 0
        bv == IF Truthy(b.nextMs) THEN b.nextMs.n ELSE 0
    IN  av < bv

CandidateLess(a, b) ==
    LET an == (a.nextMs = PyNone)
        bn == (b.nextMs = PyNone)
        av == IF Truthy(a.nextMs) THEN a.nextMs.n ELSE 0
        bv == IF Truthy(b.nextMs) THEN b.nextMs.n ELSE 0
    IN  \/ (~an /\ bn)
        \/ (an = bn /\ av < bv)

\* by_timer.get(unit): the dict keeps the last entry of each truthy name.
ByTimerGet(ts, u) ==
    LET hits == {i \in 1..Len(ts) : Truthy(ts[i].timer) /\ ts[i].timer.s = u}
    IN  IF hits = {} THEN PyNone
        ELSE ts[CHOOSE i \in hits : \A j \in hits : j <= i]

Candidates(ts, u) ==
    SortBy(Filter(ts, LAMBDA t : t.activates = PyStr(u)), CandidateLess)

schedule_for_unit(ts, u) ==
    IF EndsWith(u, ".timer")
    THEN LET t == ByTimerGet(ts, u)
         IN  [unit |-> u, kind |-> "timer", timer |-> PyStr(u),
              activates |-> IF t = PyNone THEN PyNone ELSE t.activates,
              nextMs |-> IF t = PyNone THEN PyNone ELSE t.nextMs,
              nextIso |-> IF t = PyNone THEN PyNone ELSE t.nextIso,
              lastMs |-> IF t = PyNone THEN PyNone ELSE t.lastMs,
              lastIso |-> IF t = PyNone THEN PyNone ELSE t.lastIso]
    ELSE IF EndsWith(u, ".service")
    THEN LET c == Candidates(ts, u)
             t == IF c = <<>> THEN PyNone ELSE c[1]
         IN  [unit |-> u, kind |-> "service",
              timer |-> IF t = PyNone THEN PyNone ELSE t.timer,
              activates |-> PyStr(u),
              nextMs |-> IF t = PyNone THEN PyNone ELSE t.nextMs,
              nextIso |-> IF t = PyNone THEN PyNone ELSE t.nextIso,
              lastMs |-> IF t = PyNone THEN PyNone ELSE t.lastMs,
              lastIso |-> IF t = PyNone THEN PyNone ELSE t.lastIso]
    ELSE [unit |-> u, kind |-> "other"]

\* resolve_log_unit for a unit ending in ".timer", given the schedule s:
\* a and isinstance(a, str) and UNIT_RE.fullmatch(a)
ActivatesUsable(a) == Truthy(a) /\ IsStr(a) /\ UNIT_RE(a.s)

resolve_log_unit(u, s) ==
    IF ActivatesUsable(s.activates) THEN s.activates.s ELSE u

---------------------------------------------------------------------------
(* RunHistoryBuilder: the lines of a journalctl -o json output.           *)
(* json.loads(line) either raises (k = "text"), yields a value that is no  *)
(* object (k = "json": a number, an array, ...) or yields an object, of    *)
(* which the code reads four keys (a missing key reads as PyNone).         *)

BlankLine == [k |-> "blank"]
TextLine == [k |-> "text"]
JsonLine == [k |-> "json"]
Obj(inv, ts, msg, cpu) ==
    [k |-> "obj", INVOCATION_ID |-> inv, REALTIME_TIMESTAMP |-> ts,
     MESSAGE |-> msg, CPU_USAGE_NSEC |-> cpu]

\* journalctl --unit=U -n N (no --reverse): the last N entries of the
\* stream, printed oldest first.
JournalctlTail(j, n) ==
    IF Len(j) <= n THEN j ELSE SubSeq(j, Len(j) - n + 1, Len(j))

\* The discovery loop over the scan lines, from the point where `ids` have
\* been collected.  exc names the exception that leaves the loop, if any.
RECURSIVE Discover(_, _, _)
Discover(lines, ids, lim) ==
    IF lines = <<>> THEN [exc |-> "", ids |-> ids]
    ELSE LET l == Head(lines)
             rest == Tail(lines)
         IN  IF l.k \in {"blank", "text"} THEN Discover(rest, ids, lim)
             ELSE IF l.k = "json" THEN [exc |-> "AttributeError", ids |-> ids]
             ELSE LET inv == l.INVOCATION_ID
                  IN  IF ~Truthy(inv) THEN Discover(rest, ids, lim)
                      ELSE IF ~IsStr(inv) THEN [exc |-> "TypeError", ids |-> ids]
                      ELSE IF ~INVOCATION_RE(inv.s) THEN Discover(rest, ids, lim)
                      ELSE IF \E i \in 1..Len(ids) : ids[i] = inv.s
                           THEN Discover(rest, ids, lim)
                      ELSE IF Len(ids) + 1 >= lim
                           THEN [exc |-> "", ids |-> Append(ids, inv.s)]
                      ELSE Discover(rest, Append(ids, inv.s), lim)

\* upd_status(prev, msg) for msg None or a str.
\* The status rule without the "prev if prev == 'failed'" guard.
upd_status_unguarded(prev, msg) ==
    LET m == IF Truthy(msg) THEN Lower(msg.s) ELSE ""
    IN  IF Contains(m, "failed") \/ Contains(m, "error") \/ Contains(m, "exited")
        THEN "failed"
        ELSE IF Contains(m, "deactivated successfully") \/ StartsWith(m, "finished ")
        THEN "success"
        ELSE prev

upd_status(prev, msg) ==
    LET m == IF Truthy(msg) THEN Lower(msg.s) ELSE ""
    IN  IF Contains(m, "failed") \/ Contains(m, "error") \/ Contains(m, "exited")
        THEN "failed"
        ELSE IF Contains(m, "deactivated successfully") \/ StartsWith(m, "finished ")
        THEN (IF prev = "failed" THEN prev ELSE "success")
        ELSE prev

\* (msg or "").lower() raises AttributeError when msg is truthy and no str.
MessageRaises(msg) == Truthy(msg) /\ ~IsStr(msg)

\* start_ms / end_ms after a line whose timestamp converted to ts_ms.
MinMs(cur, ts_ms) ==
    IF cur = PyNone THEN ts_ms ELSE IF ts_ms.n < cur.n THEN ts_ms ELSE cur

\* end_ms taken as the timestamp of the last record instead of the maximum.
MaxMsLast(cur, ts_ms) == ts_ms

MaxMs(cur, ts_ms) ==
    IF cur = PyNone THEN ts_ms ELSE IF ts_ms.n > cur.n THEN ts_ms ELSE cur

\* cpu_n: int(cpu) if cpu is not None else None, None on any exception.
CpuN(cpu) == IF cpu # PyNone /\ IntOk(cpu) THEN PyInt(IntOf(cpu)) ELSE PyNone

\* duration_ms
DurationMs(s, e) ==
    IF s # PyNone /\ e # PyNone THEN PyInt(e.n - s.n) ELSE PyNone

RunSummary(inv, s, e, st, cpu) ==
    [invocationId |-> inv,
     startMs |-> s, startIso |-> ms_to_iso(s),
     endMs |-> e, endIso |-> ms_to_iso(e),
     durationMs |-> DurationMs(s, e),
     status |-> st,
     cpuUsageNsec |-> cpu]

---------------------------------------------------------------------------
(* UnitCatalog: parse_unit_files, parse_units, list_units.  A listing is   *)
(* the sequence of its lines (text.splitlines()); a dict is a function     *)
(* from its keys.                                                          *)

\* key -> value of the last of the (key, value) pairs, as repeated
\* assignments out[key] = value leave a dict.
DictOf(pairs) ==
    LET keys == {pairs[i][1] : i \in 1..Len(pairs)}
    IN  [k \in keys |->
            pairs[CHOOSE i \in 1..Len(pairs) :
                     /\ pairs[i][1] = k
                     /\ \A j \in 1..Len(pairs) : pairs[j][1] = k => j <= i][2]]

parse_unit_files(lines) ==
    LET parts == [i \in 1..Len(lines) |-> Split(Strip(lines[i]), 1)]
        good == Filter(parts, LAMBDA q : Len(q) = 2)
    IN  DictOf([i \in 1..Len(good) |->
                  <<good[i][1], [unit |-> good[i][1], unitFileState |-> good[i][2]]>>])

parse_units(lines) ==
    LET parts == [i \in 1..Len(lines) |-> Split(Strip(lines[i]), 4)]
        good == Filter(parts, LAMBDA q : Len(q) >= 4)
    IN  DictOf([i \in 1..Len(good) |->
                  <<good[i][1],
                    [unit |-> good[i][1], loadState |-> good[i][2],
                     activeState |-> good[i][3], subState |-> good[i][4],
                     description |-> IF Len(good[i]) = 5 THEN good[i][5] ELSE ""]>>])

\* list_units after both listings were fetched: merge, then sort by unit.
MergedItem(a, b, u) ==
    (IF u \in DOMAIN b THEN b[u] ELSE <<>>)
    @@ (IF u \in DOMAIN a THEN a[u] ELSE <<>>)
    @@ [unit |-> u]

\* Any enumeration of a finite set (the order of set iteration).
RECURSIVE SetToSeq(_)
SetToSeq(S) ==
    IF S = {} THEN <<>>
    ELSE LET x == CHOOSE y \in S : TRUE IN <<x>> \o SetToSeq(S \ {x})

list_units(file_lines, unit_lines) ==
    LET a == parse_unit_files(file_lines)
        b == parse_units(unit_lines)
        names == SetToSeq(DOMAIN a \cup DOMAIN b)
    IN  SortBy([i \in 1..Len(names) |-> MergedItem(a, b, names[i])],
               LAMBDA x, y : StrLess(x.unit, y.unit))

---------------------------------------------------------------------------
(* units_for_targets. *)

\* The targets list do_GET builds from one `targets` query value:
\* the comma separated parts, stripped, the empty ones dropped.
TargetsOf(v) ==
    LET parts == SplitComma(v)
    IN  Filter([i \in 1..Len(parts) |-> Strip(parts[i])], LAMBDA t : t # "")

\* not t or len(t) > 200 or not UNIT_RE.fullmatch(t) or not t.endswith(".target")
TargetSkipped(t) ==
    t = "" \/ Len(t) > MaxUnitLen \/ ~UNIT_RE(t) \/ ~EndsWith(t, ".target")

\* line.lstrip(" \t*..."): the source's set also holds the bullet and tree
\* glyphs systemctl draws, which are outside this model's alphabet.
RECURSIVE LStripMarks(_)
LStripMarks(s) ==
    IF s # "" /\ Chr(s, 1) \in {" ", "\t", "*"} THEN LStripMarks(Tail(s)) ELSE s

\* The unit names a dependency listing adds to `wanted`.
DepUnits(lines) ==
    LET first == [i \in 1..Len(lines) |-> Split(LStripMarks(lines[i]), 1)]
    IN  {first[i][1] : i \in {j \in 1..Len(lines) :
                                first[j] # <<>> /\ UNIT_RE(first[j][1])}}

\* wanted after the dependency listing of target t was read.
\* The dependency names alone, without wanted.add(t).
WantedAfterDepsOnly(w, t, lines) == w \cup DepUnits(lines)

WantedAfter(w, t, lines) == (w \cup {t}) \cup DepUnits(lines)

\* The value units_for_targets returns once list_units() gave `its`.
TargetsResult(tg, w, its) ==
    IF tg = <<>> \/ w = {} THEN its
    ELSE Filter(its, LAMBDA u : u.unit \in w)

---------------------------------------------------------------------------
(* unit_detail: the properties dict built from `systemctl show`. *)

HasEq(line) == Contains(line, "=")
EqAt(line) == CHOOSE i \in 1..Len(line) :
                /\ Chr(line, i) = "="
                /\ \A j \in 1..(i - 1) : Chr(line, j) # "="
PropKey(line) == SubSeq(line, 1, EqAt(line) - 1)
PropVal(line) == SubSeq(line, EqAt(line) + 1, Len(line))

Props(lines) ==
    LET good == Filter(lines, HasEq)
    IN  DictOf([i \in 1..Len(good) |-> <<PropKey(good[i]), PropVal(good[i])>>])

---------------------------------------------------------------------------
(* Inputs: the requests and the outputs of the external commands. *)

SeqsUpTo(S, n) == UNION {[1..k -> S] : k \in 0..n}

Name200 == Rep("n", 192) \o ".service"
Long201 == Rep("n", 193) \o ".service"

IdA == Rep("a", 32)
IdB == Rep("b", 32)
IdC == Rep("c", 32)

\* Unit names of requests: well formed ones of each kind, and malformed ones.
ReqUnits ==
    {"a.service", "a.timer", "e.timer", "f.timer", "g.timer", "x.timer",
     "z.timer", "b.mount", Name200, "", "bad unit", "dev-by\\x2did.device",
     Long201}

\* Unit names of the requests that go on to the log store.
LogReqUnits ==
    {"a.service", "a.timer", "e.timer", "f.timer", Name200, "", "bad unit", Long201}

ReqInvocations ==
    {PyStr(IdA), PyStr(Rep("a", 31)), PyStr(Rep("a", 33)), PyStr(Rep("A", 32)),
     PyStr(""), PyNone}

RunsLimits == {PyNone, PyStr("0"), PyStr("1"), PyStr("2"), PyStr("51"), PyStr("x")}
LogsLimits == {PyNone, PyStr("0"), PyStr("5000"), PyStr("5001"), PyStr("-1"),
               PyStr("x")}

ReqTargets == {PyNone, PyStr("a.target"), PyStr("b.service, a.target"),
               PyStr(" , "), PyStr("b.service")}

\* Objects of the list-timers JSON array.
TimerObj(u, a, n, l) == [unit |-> u, activates |-> a, next |-> n, last |-> l]

TimerObjs ==
    {TimerObj(PyStr("a.timer"), PyStr("a.service"), PyInt(5000000), PyInt(1000000)),
     TimerObj(PyStr("b.timer"), PyStr("a.service"), PyNone, PyNone),
     TimerObj(PyStr("c.timer"), PyStr("a.service"), PyInt(9000000), PyInt(0)),
     TimerObj(PyStr("d.timer"), PyStr("a.service"), PyInt(999), PyNone),
     TimerObj(PyStr("e.timer"), PyStr(Long201), PyInt(5000000), PyNone),
     TimerObj(PyStr("f.timer"), PyStr("bad unit"), PyNone, PyInt(2000000)),
     TimerObj(PyStr("g.timer"), PyNone, PyInt(0), PyNone),
     TimerObj(PyNone, PyStr("a.service"), PyInt(1000000), PyNone),
     TimerObj(PyStr("a.timer"), PyStr("b.service"), PyInt(3000000), PyNone),
     TimerObj(PyStr("x.timer"), PyStr(Name200), PyNone, PyNone)}

\* What `systemctl list-timers --output=json` prints: text json.loads
\* rejects, a JSON number, or a JSON array of objects.
TimerOutputs ==
    {[json |-> "invalid"], [json |-> "number"]}
    \cup {[json |-> "array", items |-> s] : s \in SeqsUpTo(TimerObjs, MaxTimers)}

\* Lines of the discovery scan.
DiscoveryLine(inv) == Obj(inv, PyNone, PyNone, PyNone)

ScanAlphabet ==
    {DiscoveryLine(PyStr(IdA)), DiscoveryLine(PyStr(IdB)), DiscoveryLine(PyStr(IdC)),
     DiscoveryLine(PyNone), DiscoveryLine(PyStr("")), DiscoveryLine(PyStr(Rep("a", 31))),
     DiscoveryLine(PyList), BlankLine, TextLine, JsonLine}

\* The stream of the spec's example: invocations A, B, C emitted in that
\* order, read as C,B,A,C,B.
ExampleScan ==
    <<DiscoveryLine(PyStr(IdC)), DiscoveryLine(PyStr(IdB)), DiscoveryLine(PyStr(IdA)),
      DiscoveryLine(PyStr(IdC)), DiscoveryLine(PyStr(IdB))>>

AllJournals == SeqsUpTo(ScanAlphabet, MaxScan) \cup {ExampleScan}

\* Lines of an invocation's query.
RawAlphabet ==
    {Obj(PyStr(IdA), PyStr("5000"), PyStr("Started job"), PyNone),
     Obj(PyStr(IdA), PyStr("9000"), PyStr("Finished job"), PyStr("100")),
     Obj(PyStr(IdA), PyStr("999"), PyStr("a.service: Deactivated successfully"), PyStr("50")),
     Obj(PyStr(IdA), PyInt(7000), PyStr("Main process exited"), PyStr("300")),
     Obj(PyStr(IdA), PyNone, PyStr("job FAILED"), PyNone),
     Obj(PyStr(IdA), PyStr("0"), PyStr("Error: x"), PyStr("abc")),
     Obj(PyStr(IdA), PyStr("-5"), PyNone, PyInt(0)),
     Obj(PyStr(IdA), PyStr("abc"), PyStr("unfinished "), PyNone),
     Obj(PyStr(IdA), PyStr("2000"), PyList, PyNone),
     BlankLine, TextLine, JsonLine}

AllRaws == SeqsUpTo(RawAlphabet, MaxRaw)

\* The few outputs the whole-request specification draws from.
SampleJournals ==
    SeqsUpTo({DiscoveryLine(PyStr(IdA)), DiscoveryLine(PyStr(IdB))}, MaxScan)
    \cup {<<TextLine, DiscoveryLine(PyStr(IdA))>>, <<JsonLine>>}

SampleRaws ==
    {<<>>,
     <<Obj(PyStr(IdA), PyStr("5000"), PyStr("Started job"), PyNone),
       Obj(PyStr(IdA), PyStr("9000"), PyStr("Finished job"), PyStr("100"))>>,
     <<TextLine, Obj(PyStr(IdA), PyInt(7000), PyStr("Main process exited"), PyStr("300"))>>,
     <<Obj(PyStr(IdA), PyStr("2000"), PyList, PyNone)>>}

\* Lines of `systemctl list-unit-files` and of `systemctl list-units --all`.
UnitFileLines ==
    {"a.service   enabled  enabled", "orphan",
     "dev-by\\x2did.device static", Long201 \o " disabled"}

UnitLines ==
    {"a.service loaded active running A service", "b.mount loaded active",
     "* c.service not-found inactive dead c.service",
     "  a.target loaded active active"}

\* Lines of `systemctl list-dependencies --plain -- t`.
DepLines == {"  a.service", "* c.service", "bad/name x"}

LogTexts == {"", "Started job\nFinished job\n"}

ShowTexts == {<<>>, <<"Id=a.service", "Description=A=B", "noise">>}

---------------------------------------------------------------------------
(* run(), send_json and the except clauses of do_GET. *)

\* How a run() call can end without returning text: nonzero exit
\* (RuntimeError), subprocess timeout (TimeoutExpired), or output that is
\* not valid text in the locale's encoding (UnicodeDecodeError, raised by
\* subprocess under text=True).
RunFailures == {"RuntimeError", "TimeoutExpired", "UnicodeDecodeError"}

\* isinstance(e, ValueError)
IsValueError(e) == e \in {"ValueError", "JSONDecodeError", "UnicodeDecodeError"}

\* The status of the except clause that catches e in the branch of route r:
\* /api/units has no `except ValueError` clause.
StatusFor(r, e) == IF r # "units" /\ IsValueError(e) THEN 400 ELSE 500

Cmd(tool, verb, u, match) ==
    [tool |-> tool, verb |-> verb, unit |-> u, match |-> match]

NoResp == [code |-> 0]

\* An exception e with message msg reaches the handler's except clauses.
Raise(e, msg) ==
    /\ resp' = [code |-> StatusFor(route, e), exc |-> e, error |-> msg]
    /\ pc' = "done"

\* send_json(HTTPStatus.OK, data)
SendOk(data) ==
    /\ resp' = [code |-> 200, exc |-> "", data |-> data]
    /\ pc' = "done"

reqVars == <<route, unit, invocation_id, limit_qs, targets_qs>>
aggVars == <<raw, pos, start_ms, end_ms, status, cpu_usage>>
runsVars == <<journal, scan, inv_ids, raw, pos, start_ms, end_ms, status,
              cpu_usage, runs>>
unitsVars == <<targets, tpos, deps, wanted, unit_files, items>>

---------------------------------------------------------------------------
(* GET /api/schedule/{unit}: schedule_for_unit up to its list_timers(). *)

DoGetSchedule ==
    /\ pc = "request" /\ route = "schedule"
    /\ IF InvalidUnit(unit)
       THEN Raise("ValueError", "invalid unit")
       ELSE pc' = "list_timers" /\ UNCHANGED resp
    /\ UNCHANGED <<reqVars, limit, cmds, timers, log_unit, runsVars, unitsVars, props>>

\* Where list_runs / logs_for_invocation continue after resolve_log_unit.
AfterResolve == IF route = "runs" THEN "scan" ELSE "logs"

\* list_timers() and the rest of schedule_for_unit; for /api/runs and
\* /api/logs the rest of resolve_log_unit too.  `timers` is a local of
\* schedule_for_unit: it is gone when the caller goes on to its next command.
ListTimers ==
    /\ pc = "list_timers"
    /\ cmds' = Append(cmds, Cmd("systemctl", "list-timers", "", ""))
    /\ \/ \E e \in RunFailures :
            /\ Raise(e, "list-timers")
            /\ UNCHANGED <<timers, log_unit>>
       \/ \E out \in TimerOutputs :
            IF out.json = "invalid"
            THEN Raise("JSONDecodeError", "Expecting value") /\ UNCHANGED <<timers, log_unit>>
            ELSE IF out.json = "number"
            THEN Raise("TypeError", "not iterable") /\ UNCHANGED <<timers, log_unit>>
            ELSE IF route = "schedule"
            THEN /\ timers' = list_timers(out.items)
                 /\ SendOk(schedule_for_unit(timers', unit))
                 /\ UNCHANGED log_unit
            ELSE /\ timers' = list_timers(out.items)
                 /\ log_unit' = resolve_log_unit(unit, schedule_for_unit(timers', unit))
                 /\ pc' = AfterResolve
                 /\ UNCHANGED resp
    /\ UNCHANGED <<reqVars, limit, runsVars, unitsVars, props>>

---------------------------------------------------------------------------
(* GET /api/runs/{unit}?limit=N: list_runs. *)

\* (qs.get("limit", [dflt])[0]) or dflt: parse_qs drops blank values.
LimitText(q, dflt) == IF Truthy(q) THEN q.s ELSE dflt

\* The checks at the head of list_runs, in their order: the message of the
\* ValueError raised, "" when none is.
RunsInvalid(u, n) ==
    IF InvalidUnit(u) THEN "invalid unit"
    ELSE IF InvalidLimit(n, RunsMaxLimit) THEN "invalid limit"
    ELSE ""

DoGetRuns ==
    /\ pc = "request" /\ route = "runs"
    /\ IF ~IsIntText(LimitText(limit_qs, "10"))
       THEN Raise("ValueError", "invalid literal for int()") /\ UNCHANGED <<limit, log_unit>>
       ELSE /\ limit' = IntText(LimitText(limit_qs, "10"))
            /\ IF RunsInvalid(unit, limit') # ""
               THEN Raise("ValueError", RunsInvalid(unit, limit')) /\ UNCHANGED log_unit
               ELSE IF EndsWith(unit, ".timer")
               THEN pc' = "list_timers" /\ UNCHANGED <<log_unit, resp>>
               ELSE log_unit' = unit /\ pc' = "scan" /\ UNCHANGED resp
    /\ UNCHANGED <<reqVars, cmds, timers, runsVars, unitsVars, props>>

\* scan = run(["journalctl", "--unit=<log_unit>", "-n", "20000", ...])
RunsScan(J) ==
    /\ pc = "scan"
    /\ cmds' = Append(cmds, Cmd("journalctl", "-n 20000", log_unit, ""))
    /\ \/ \E e \in RunFailures :
            Raise(e, "journalctl") /\ UNCHANGED <<journal, scan>>
       \/ \E j \in J :
            /\ journal' = j
            /\ scan' = JournalctlTail(j, ScanLines)
            /\ pc' = "discover"
            /\ UNCHANGED resp
    /\ timers' = <<>>
    /\ UNCHANGED <<reqVars, limit, log_unit, inv_ids, aggVars, runs,
                   unitsVars, props>>

\* The discovery loop (for line in scan.splitlines()).
RunsDiscover ==
    /\ pc = "discover"
    /\ LET d == Discover(scan, <<>>, limit)
       IN  IF d.exc # ""
           THEN Raise(d.exc, "discovery") /\ UNCHANGED inv_ids
           ELSE /\ inv_ids' = d.ids
                /\ pc' = IF d.ids = <<>> THEN "return" ELSE "fetch"
                /\ UNCHANGED resp
    /\ UNCHANGED <<reqVars, limit, cmds, timers, log_unit, journal, scan,
                   aggVars, runs, unitsVars, props>>

\* raw = run(["journalctl", "--unit=<log_unit>", "INVOCATION_ID=<inv>", ...])
\* for the next discovered id, and the reset of the accumulators.
RunsFetch(R) ==
    /\ pc = "fetch"
    /\ cmds' = Append(cmds, Cmd("journalctl", "", log_unit, inv_ids[Len(runs) + 1]))
    /\ \/ \E e \in RunFailures :
            Raise(e, "journalctl") /\ UNCHANGED aggVars
       \/ \E r \in R :
            /\ raw' = r
            /\ pos' = 0
            /\ start_ms' = PyNone
            /\ end_ms' = PyNone
            /\ status' = "unknown"
            /\ cpu_usage' = PyNone
            /\ pc' = "record"
            /\ UNCHANGED resp
    /\ UNCHANGED <<reqVars, limit, timers, log_unit, journal, scan, inv_ids,
                   runs, unitsVars, props>>

\* One pass of the aggregation loop (for line in raw.splitlines()).
RunsRecord ==
    /\ pc = "record" /\ pos < Len(raw)
    /\ LET l == raw[pos + 1] IN
       IF l.k \in {"blank", "text"}
       THEN /\ pos' = pos + 1
            /\ UNCHANGED <<pc, resp, start_ms, end_ms, status, cpu_usage>>
       ELSE IF l.k = "json"
       THEN /\ Raise("AttributeError", "no attribute get")
            /\ UNCHANGED <<pos, start_ms, end_ms, status, cpu_usage>>
       ELSE LET ts_ms == usec_to_ms(l.REALTIME_TIMESTAMP)
                cpu_n == CpuN(l.CPU_USAGE_NSEC)
            IN  /\ start_ms' = IF ts_ms # PyNone THEN MinMs(start_ms, ts_ms) ELSE start_ms
                /\ end_ms' = IF ts_ms # PyNone THEN MaxMs(end_ms, ts_ms) ELSE end_ms
                /\ cpu_usage' = IF cpu_n # PyNone THEN MaxMs(cpu_usage, cpu_n) ELSE cpu_usage
                /\ IF MessageRaises(l.MESSAGE)
                   THEN Raise("AttributeError", "no attribute lower") /\ UNCHANGED <<pos, status>>
                   ELSE /\ status' = upd_status(status, l.MESSAGE)
                        /\ pos' = pos + 1
                        /\ UNCHANGED <<pc, resp>>
    /\ UNCHANGED <<reqVars, limit, cmds, timers, log_unit, journal, scan,
                   inv_ids, raw, runs, unitsVars, props>>

\* runs.append({...}) once the lines of raw are exhausted.
RunsAppend ==
    /\ pc = "record" /\ pos = Len(raw)
    /\ runs' = Append(runs, RunSummary(inv_ids[Len(runs) + 1], start_ms, end_ms,
                                       status, cpu_usage))
    /\ pc' = IF Len(runs') < Len(inv_ids) THEN "fetch" ELSE "return"
    /\ UNCHANGED <<reqVars, limit, cmds, timers, log_unit, journal, scan,
                   inv_ids, aggVars, unitsVars, props, resp>>

\* return {"logUnit": log_unit, "runs": runs} and the handler's send_json.
RunsReturn ==
    /\ pc = "return"
    /\ SendOk([unit |-> unit, logUnit |-> log_unit, runs |-> runs])
    /\ UNCHANGED <<reqVars, limit, cmds, timers, log_unit, runsVars, unitsVars, props>>

---------------------------------------------------------------------------
(* GET /api/logs/{unit}/{invocationId}?limit=N: logs_for_invocation.      *)
(* invocation_id is PyNone when the path holds no "/" after the unit.      *)

LogsInvalid(u, i, n) ==
    IF InvalidUnit(u) THEN "invalid unit"
    ELSE IF InvalidInvocation(i) THEN "invalid invocation"
    ELSE IF InvalidLimit(n, LogsMaxLimit) THEN "invalid limit"
    ELSE ""

DoGetLogs ==
    /\ pc = "request" /\ route = "logs"
    /\ IF invocation_id = PyNone
       THEN /\ resp' = [code |-> 400, exc |-> "", error |-> "invalid path"]
            /\ pc' = "done"
            /\ UNCHANGED <<limit, log_unit>>
       ELSE IF ~IsIntText(LimitText(limit_qs, "400"))
       THEN Raise("ValueError", "invalid literal for int()") /\ UNCHANGED <<limit, log_unit>>
       ELSE /\ limit' = IntText(LimitText(limit_qs, "400"))
            /\ IF LogsInvalid(unit, invocation_id.s, limit') # ""
               THEN Raise("ValueError", LogsInvalid(unit, invocation_id.s, limit'))
                    /\ UNCHANGED log_unit
               ELSE IF EndsWith(unit, ".timer")
               THEN pc' = "list_timers" /\ UNCHANGED <<log_unit, resp>>
               ELSE log_unit' = unit /\ pc' = "logs" /\ UNCHANGED resp
    /\ UNCHANGED <<reqVars, cmds, timers, runsVars, unitsVars, props>>

\* out = run(["journalctl", "--unit=<log_unit>", "INVOCATION_ID=<id>", "-n", str(limit), ...])
LogsFetch ==
    /\ pc = "logs"
    /\ cmds' = Append(cmds, Cmd("journalctl", "-n limit", log_unit, invocation_id.s))
    /\ \/ \E e \in RunFailures : Raise(e, "journalctl")
       \/ \E out \in LogTexts :
            SendOk([unit |-> unit, invocationId |-> invocation_id.s, logs |-> out])
    /\ timers' = <<>>
    /\ UNCHANGED <<reqVars, limit, log_unit, runsVars, unitsVars, props>>

---------------------------------------------------------------------------
(* GET /api/unit/{unit}: unit_detail. *)

DoGetUnit ==
    /\ pc = "request" /\ route = "unit"
    /\ IF InvalidUnit(unit)
       THEN Raise("ValueError", "invalid unit")
       ELSE pc' = "show" /\ UNCHANGED resp
    /\ UNCHANGED <<reqVars, limit, cmds, timers, log_unit, runsVars, unitsVars, props>>

UnitShow ==
    /\ pc = "show"
    /\ cmds' = Append(cmds, Cmd("systemctl", "show", unit, ""))
    /\ \/ \E e \in RunFailures : Raise(e, "show") /\ UNCHANGED props
       \/ \E out \in ShowTexts :
            props' = Props(out) /\ pc' = "cat" /\ UNCHANGED resp
    /\ UNCHANGED <<reqVars, limit, timers, log_unit, runsVars, unitsVars>>

UnitCat ==
    /\ pc = "cat"
    /\ cmds' = Append(cmds, Cmd("systemctl", "cat", unit, ""))
    /\ \/ \E e \in RunFailures : Raise(e, "cat")
       \/ \E out \in LogTexts :
            SendOk([unit |-> unit, properties |-> props, cat |-> out])
    /\ UNCHANGED <<reqVars, limit, timers, log_unit, runsVars, unitsVars, props>>

---------------------------------------------------------------------------
(* GET /api/units?targets=...: units_for_targets and list_units. *)

DoGetUnits ==
    /\ pc = "request" /\ route = "units"
    /\ targets' = IF Truthy(targets_qs) THEN TargetsOf(targets_qs.s) ELSE <<>>
    /\ pc' = IF targets' = <<>> THEN "list_unit_files" ELSE "deps"
    /\ UNCHANGED <<reqVars, limit, cmds, timers, log_unit, runsVars, tpos, deps,
                   wanted, unit_files, items, props, resp>>

\* One pass of `for t in targets`.
UnitsTarget ==
    /\ pc = "deps"
    /\ LET t == targets[tpos + 1]
           next == IF tpos + 1 = Len(targets) THEN "list_unit_files" ELSE "deps"
       IN  IF TargetSkipped(t)
           THEN /\ tpos' = tpos + 1
                /\ pc' = next
                /\ UNCHANGED <<cmds, deps, wanted, resp>>
           ELSE /\ cmds' = Append(cmds, Cmd("systemctl", "list-dependencies", t, ""))
                /\ \/ \E e \in RunFailures :
                        Raise(e, "list-dependencies") /\ UNCHANGED <<tpos, deps, wanted>>
                   \/ \E out \in SeqsUpTo(DepLines, MaxDeps) :
                        /\ deps' = out
                        /\ wanted' = WantedAfter(wanted, t, out)
                        /\ tpos' = tpos + 1
                        /\ pc' = next
                        /\ UNCHANGED resp
    /\ UNCHANGED <<reqVars, limit, timers, log_unit, runsVars, targets,
                   unit_files, items, props>>

\* list_units: unit_files = run(["systemctl", "list-unit-files", ...])
ListUnitFiles ==
    /\ pc = "list_unit_files"
    /\ cmds' = Append(cmds, Cmd("systemctl", "list-unit-files", "", ""))
    /\ \/ \E e \in RunFailures : Raise(e, "list-unit-files") /\ UNCHANGED unit_files
       \/ \E out \in SeqsUpTo(UnitFileLines, MaxListing) :
            unit_files' = out /\ pc' = "list_units" /\ UNCHANGED resp
    /\ UNCHANGED <<reqVars, limit, timers, log_unit, runsVars, targets, tpos,
                   deps, wanted, items, props>>

\* list_units: units = run(["systemctl", "list-units", "--all", ...]), the
\* merge and sort, and the return of units_for_targets.
ListUnits ==
    /\ pc = "list_units"
    /\ cmds' = Append(cmds, Cmd("systemctl", "list-units", "", ""))
    /\ \/ \E e \in RunFailures : Raise(e, "list-units") /\ UNCHANGED items
       \/ \E out \in SeqsUpTo(UnitLines, MaxUnits) :
            /\ items' = list_units(unit_files, out)
            /\ SendOk([units |-> TargetsResult(targets, wanted, items')])
    /\ UNCHANGED <<reqVars, limit, timers, log_unit, runsVars, targets, tpos,
                   deps, wanted, unit_files, props>>

---------------------------------------------------------------------------
(* The specification of one request, from its arrival to its response. *)

Fresh ==
    /\ pc = "request"
    /\ limit = 0 /\ cmds = <<>> /\ timers = <<>> /\ log_unit = ""
    /\ journal = <<>> /\ scan = <<>> /\ inv_ids = <<>> /\ raw = <<>> /\ pos = 0
    /\ start_ms = PyNone /\ end_ms = PyNone /\ status = "unknown"
    /\ cpu_usage = PyNone /\ runs = <<>>
    /\ targets = <<>> /\ tpos = 0 /\ deps = <<>> /\ wanted = {}
    /\ unit_files = <<>> /\ items = <<>> /\ props = <<>>
    /\ resp = NoResp

Init ==
    /\ Fresh
    /\ \/ /\ route \in {"schedule", "unit"}
          /\ unit \in ReqUnits
          /\ invocation_id = PyNone /\ limit_qs = PyNone /\ targets_qs = PyNone
       \/ /\ route = "runs"
          /\ unit \in LogReqUnits
          /\ limit_qs \in RunsLimits
          /\ invocation_id = PyNone /\ targets_qs = PyNone
       \/ /\ route = "logs"
          /\ unit \in LogReqUnits
          /\ invocation_id \in ReqInvocations
          /\ limit_qs \in LogsLimits
          /\ targets_qs = PyNone
       \/ /\ route = "units"
          /\ targets_qs \in ReqTargets
          /\ unit = "" /\ invocation_id = PyNone /\ limit_qs = PyNone

Next ==
    \/ DoGetSchedule
    \/ ListTimers
    \/ DoGetRuns
    \/ RunsScan(SampleJournals)
    \/ RunsDiscover
    \/ RunsFetch(SampleRaws)
    \/ RunsRecord
    \/ RunsAppend
    \/ RunsReturn
    \/ DoGetLogs
    \/ LogsFetch
    \/ DoGetUnit
    \/ UnitShow
    \/ UnitCat
    \/ DoGetUnits
    \/ UnitsTarget
    \/ ListUnitFiles
    \/ ListUnits

Spec == Init /\ [][Next]_vars

---------------------------------------------------------------------------
(* list_runs from its discovery scan on, over every short log stream. *)

AfterValidation(lq) ==
    /\ route = "runs" /\ unit = "a.service" /\ invocation_id = PyNone
    /\ limit_qs = lq /\ targets_qs = PyNone
    /\ limit = IntText(LimitText(lq, "10"))
    /\ log_unit = "a.service" /\ timers = <<>>
    /\ targets = <<>> /\ tpos = 0 /\ deps = <<>> /\ wanted = {}
    /\ unit_files = <<>> /\ items = <<>> /\ props = <<>>
    /\ resp = NoResp

InitDiscover ==
    /\ \E lq \in {PyNone, PyStr("1"), PyStr("2"), PyStr("3")} : AfterValidation(lq)
    /\ pc = "scan" /\ cmds = <<>>
    /\ journal = <<>> /\ scan = <<>> /\ inv_ids = <<>> /\ raw = <<>> /\ pos = 0
    /\ start_ms = PyNone /\ end_ms = PyNone /\ status = "unknown"
    /\ cpu_usage = PyNone /\ runs = <<>>

NextDiscover ==
    \/ RunsScan(AllJournals)
    \/ RunsDiscover

SpecDiscover == InitDiscover /\ [][NextDiscover]_vars

---------------------------------------------------------------------------
(* list_runs from the query of one discovered invocation on, over every    *)
(* short output of that query.                                             *)

InitAggregate ==
    /\ AfterValidation(PyNone)
    /\ pc = "fetch"
    /\ cmds = <<Cmd("journalctl", "-n 20000", "a.service", "")>>
    /\ journal = <<DiscoveryLine(PyStr(IdA))>>
    /\ scan = <<DiscoveryLine(PyStr(IdA))>>
    /\ inv_ids = <<IdA>>
    /\ raw = <<>> /\ pos = 0
    /\ start_ms = PyNone /\ end_ms = PyNone /\ status = "unknown"
    /\ cpu_usage = PyNone /\ runs = <<>>

NextAggregate ==
    \/ RunsFetch(AllRaws)
    \/ RunsRecord
    \/ RunsAppend
    \/ RunsReturn

SpecAggregate == InitAggregate /\ [][NextAggregate]_vars

---------------------------------------------------------------------------
(* Vocabulary of the properties, stated without the code's own checks. *)

\* A unit name that is empty, longer than 200 characters or holds a
\* character outside the identifier pattern.
BadUnitName(u) ==
    \/ Len(u) = 0
    \/ Len(u) > MaxUnitLen
    \/ \E i \in 1..Len(u) : Chr(u, i) \notin UnitChars

\* An invocation id that is not exactly 32 lowercase hexadecimal characters.
BadInvocationId(i) ==
    \/ Len(i) # InvocationLen
    \/ \E k \in 1..Len(i) : Chr(i, k) \notin HexChars

\* The limit of the query (dflt when absent) is a number outside [1, hi].
LimitOutside(q, dflt, hi) ==
    /\ IsIntText(LimitText(q, dflt))
    /\ (IntText(LimitText(q, dflt)) < 1 \/ IntText(LimitText(q, dflt)) > hi)

\* The limit of the query is no number, or a number outside [1, hi].
BadLimit(q, dflt, hi) == ~IsIntText(LimitText(q, dflt)) \/ LimitOutside(q, dflt, hi)

Journalctl(c) == c.tool = "journalctl"

\* The distinct well-formed invocation ids of `lines`, in order of first
\* appearance.
HasValidId(l) ==
    /\ l.k = "obj"
    /\ IsStr(l.INVOCATION_ID)
    /\ ~BadInvocationId(l.INVOCATION_ID.s)

FirstSeen(lines) ==
    LET firsts == Filter([i \in 1..Len(lines) |-> i],
                         LAMBDA i : /\ HasValidId(lines[i])
                                    /\ \A j \in 1..(i - 1) :
                                          ~(HasValidId(lines[j])
                                            /\ lines[j].INVOCATION_ID = lines[i].INVOCATION_ID))
    IN  [p \in 1..Len(firsts) |-> lines[firsts[p]].INVOCATION_ID.s]

Take(seq, n) == IF Len(seq) <= n THEN seq ELSE SubSeq(seq, 1, n)

Reverse(seq) == [i \in 1..Len(seq) |-> seq[Len(seq) + 1 - i]]

RunIds(rs) == [i \in 1..Len(rs) |-> rs[i].invocationId]

\* The millisecond values of the timestamps of `lines` that convert.
ConvertedMs(lines) ==
    {usec_to_ms(lines[i].REALTIME_TIMESTAMP).n :
        i \in {j \in 1..Len(lines) :
                 /\ lines[j].k = "obj"
                 /\ usec_to_ms(lines[j].REALTIME_TIMESTAMP) # PyNone}}

SetMin(S) == CHOOSE x \in S : \A y \in S : x <= y
SetMax(S) == CHOOSE x \in S : \A y \in S : x >= y

---------------------------------------------------------------------------
(* C1.  In schedule_for_unit, list_runs, logs_for_invocation and           *)
(* unit_detail, a unit name that is empty, too long or outside the         *)
(* pattern, an invocation id that is not 32 lowercase hex characters, or a *)
(* limit outside its range ends the request in a validation error, and no  *)
(* external command has been run at any point of that request.             *)

C1_Rejected ==
    \/ route \in {"schedule", "unit"} /\ BadUnitName(unit)
    \/ route = "runs"
       /\ (BadUnitName(unit) \/ LimitOutside(limit_qs, "10", RunsMaxLimit))
    \/ route = "logs" /\ invocation_id # PyNone
       /\ \/ BadUnitName(unit)
          \/ BadInvocationId(invocation_id.s)
          \/ LimitOutside(limit_qs, "400", LogsMaxLimit)

C1_ValidationBeforeCommands ==
    C1_Rejected =>
        /\ cmds = <<>>
        /\ pc \in {"request", "done"}
        /\ pc = "done" => (resp.code = 400 /\ resp.exc = "ValueError")

C1_Witness ==
    /\ pc = "done" /\ route = "logs" /\ unit = "a.timer"
    /\ invocation_id = PyStr(Rep("A", 32))
    /\ resp.code = 400 /\ resp.error = "invalid invocation"
    /\ cmds = <<>>

---------------------------------------------------------------------------
(* C2.  On /api/schedule, /api/runs and /api/logs every failure of an      *)
(* external collaborator (nonzero exit, timeout, unparsable output of the  *)
(* timer listing) gives a 500, never a 400; a 400 is returned only when    *)
(* the request's own unit name, invocation id or limit fails validation.   *)

C2_RequestInvalid ==
    \/ BadUnitName(unit)
    \/ route = "runs" /\ BadLimit(limit_qs, "10", RunsMaxLimit)
    \/ route = "logs"
       /\ \/ invocation_id = PyNone
          \/ BadInvocationId(invocation_id.s)
          \/ BadLimit(limit_qs, "400", LogsMaxLimit)

C2_ToolFailureIsServerError ==
    (pc = "done" /\ route \in {"schedule", "runs", "logs"}) =>
        /\ resp.exc \in {"RuntimeError", "TimeoutExpired", "JSONDecodeError"}
              => resp.code = 500
        /\ resp.code = 400 => C2_RequestInvalid

---------------------------------------------------------------------------
(* C3.  Folded through upd_status from "unknown", the status of an         *)
(* invocation only moves unknown -> success, unknown -> failed or          *)
(* success -> failed: once "failed" it stays "failed" whatever message     *)
(* follows, and it never returns to "unknown".                             *)

C3_StatusMonotonic ==
    [][/\ status = "failed" => status' = "failed"
       /\ status = "success" => status' \in {"success", "failed"}]_vars

C3_Witness ==
    /\ pc = "record" /\ pos >= 2
    /\ status = "failed"
    /\ raw[pos].k = "obj"
    /\ IsStr(raw[pos].MESSAGE)
    /\ StartsWith(Lower(raw[pos].MESSAGE.s), "finished ")

---------------------------------------------------------------------------
(* C4.  When the scanned window holds more than `limit` distinct           *)
(* invocations, list_runs discovers the `limit` most recently emitted      *)
(* ones, most recent first.                                                *)

C4_MostRecentFirst ==
    (/\ pc = "fetch"
     /\ Len(FirstSeen(scan)) > limit)
        => inv_ids = Take(FirstSeen(Reverse(JournalctlTail(journal, ScanLines))), limit)

---------------------------------------------------------------------------
(* C5.  For any scan output and any limit in [1,50], the ids discovered    *)
(* are the first min(limit, number of distinct valid ids) distinct valid   *)
(* ids in order of first appearance, malformed records being skipped       *)
(* without aborting, and the returned runs hold one RunSummary per         *)
(* discovered id in that order.                                            *)

C5_FirstDistinctIds ==
    /\ pc \in {"fetch", "record", "return"} => inv_ids = Take(FirstSeen(scan), limit)
    /\ ~(/\ pc = "done" /\ route = "runs"
         /\ resp.code # 200
         /\ resp.error = "discovery")
    /\ (pc = "done" /\ route = "runs" /\ resp.code = 200)
          => RunIds(resp.data.runs) = Take(FirstSeen(scan), limit)

\* What holds of the discovery whenever it is not aborted by a line that is
\* valid JSON but no object, or by an INVOCATION_ID that is no string.
DiscoveryUnlessAborted ==
    (pc \in {"fetch", "record", "return"} \/ (pc = "done" /\ resp.code = 200 /\ route = "runs"))
        => inv_ids = Take(FirstSeen(scan), limit)

---------------------------------------------------------------------------
(* C6.  For a unit ending in ".service", schedule_for_unit returns, among  *)
(* the timers whose activates equals the unit, one with the smallest       *)
(* non-null nextMs; one with null nextMs only if every candidate has null  *)
(* nextMs; and null timer and times when there is no candidate.            *)

C6_EarliestTimerWins ==
    (pc = "done" /\ route = "schedule" /\ resp.code = 200 /\ EndsWith(unit, ".service")) =>
        LET d == resp.data
            c == {i \in 1..Len(timers) : timers[i].activates = PyStr(unit)}
        IN  IF c = {}
            THEN /\ d.timer = PyNone
                 /\ d.nextMs = PyNone /\ d.nextIso = PyNone
                 /\ d.lastMs = PyNone /\ d.lastIso = PyNone
            ELSE \E i \in c :
                    /\ d.timer = timers[i].timer
                    /\ d.nextMs = timers[i].nextMs /\ d.nextIso = timers[i].nextIso
                    /\ d.lastMs = timers[i].lastMs /\ d.lastIso = timers[i].lastIso
                    /\ \A j \in c :
                          timers[j].nextMs # PyNone =>
                              /\ timers[i].nextMs # PyNone
                              /\ timers[i].nextMs.n <= timers[j].nextMs.n

C6_Witness ==
    /\ pc = "done" /\ route = "schedule" /\ unit = "a.service" /\ resp.code = 200
    /\ Len(timers) = 2
    /\ \A i \in 1..2 : timers[i].activates = PyStr("a.service")
    /\ \E i \in 1..2 : timers[i].nextMs = PyInt(5000)
    /\ \E i \in 1..2 : timers[i].nextMs = PyNone
    /\ resp.data.nextMs = PyInt(5000)
    /\ resp.data.timer = PyStr("a.timer")

---------------------------------------------------------------------------
(* C7.  The log unit of every journalctl query is the activates target of  *)
(* a requested ".timer" unit when that target is a validly formed unit     *)
(* name (pattern and at most 200 characters), otherwise the requested      *)
(* unit; so every unit name reaching journalctl passes the validation.     *)

C7_Target ==
    LET t == ByTimerGet(timers, unit)
    IN  IF t = PyNone THEN PyNone ELSE t.activates

C7_LogUnitIsValidated ==
    /\ pc \in {"scan", "logs"} =>
          log_unit = IF EndsWith(unit, ".timer") /\ IsStr(C7_Target)
                        /\ ~BadUnitName(C7_Target.s)
                     THEN C7_Target.s
                     ELSE unit
    /\ \A i \in 1..Len(cmds) : Journalctl(cmds[i]) => ~BadUnitName(cmds[i].unit)

---------------------------------------------------------------------------
(* C8.  In every RunSummary of list_runs, durationMs is non-null exactly   *)
(* when startMs and endMs both are, and then is endMs - startMs >= 0;      *)
(* startMs and endMs are the minimum and the maximum of the timestamps of  *)
(* the invocation's records that converted to milliseconds.                *)

C8_SummaryOk(r, lines) ==
    /\ r.durationMs # PyNone <=> (r.startMs # PyNone /\ r.endMs # PyNone)
    /\ r.durationMs # PyNone =>
          (r.durationMs.n = r.endMs.n - r.startMs.n /\ r.durationMs.n >= 0)
    /\ IF ConvertedMs(lines) = {}
       THEN r.startMs = PyNone /\ r.endMs = PyNone
       ELSE /\ r.startMs = PyInt(SetMin(ConvertedMs(lines)))
            /\ r.endMs = PyInt(SetMax(ConvertedMs(lines)))

C8_DurationPresence ==
    /\ \A i \in 1..Len(runs) : C8_SummaryOk(runs[i], raw)
    /\ (pc = "done" /\ resp.code = 200) =>
          \A i \in 1..Len(resp.data.runs) : C8_SummaryOk(resp.data.runs[i], raw)

C8_Witness ==
    /\ pc = "done" /\ resp.code = 200
    /\ Len(resp.data.runs) = 1
    /\ resp.data.runs[1].durationMs # PyNone
    /\ resp.data.runs[1].durationMs.n > 0
    /\ \E i \in 1..Len(raw) :
          raw[i].k = "obj" /\ usec_to_ms(raw[i].REALTIME_TIMESTAMP) = PyNone
    /\ raw[Len(raw)].k = "obj"
    /\ usec_to_ms(raw[Len(raw)].REALTIME_TIMESTAMP) = resp.data.runs[1].startMs

---------------------------------------------------------------------------
(* C9.  Every unit name of the catalog list_units returns is well formed   *)
(* (non-empty, at most 200 characters, matching the pattern), so that      *)
(* schedule_for_unit never rejects a catalog name.                         *)

C9_CatalogWellFormed ==
    (route = "units" /\ pc = "done" /\ resp.code = 200) =>
        \A i \in 1..Len(items) :
            ~BadUnitName(items[i].unit) /\ ~InvalidUnit(items[i].unit)

---------------------------------------------------------------------------
(* C10.  units_for_targets with the single filter "a.target", a.target     *)
(* being absent from the dependency output and from the catalog.           *)

C10_Case ==
    /\ route = "units" /\ pc = "done" /\ resp.code = 200
    /\ targets = <<"a.target">>
    /\ "a.target" \notin DepUnits(deps)
    /\ \A i \in 1..Len(items) : items[i].unit # "a.target"

====
